---- MODULE Spec2Model ----
(***************************************************************************)
(* A model of pixelwalker.js' World (src/src/world.ts) and Block           *)
(* (src/unnamed/part_000): two grids of blocks, the geometric operations   *)
(* clear / place / blockAt / copy / paste, the binary decoder init and the *)
(* text encoder toString with its unfinished counterpart fromString.       *)
(*                                                                         *)
(* JavaScript arrays are modelled as functions over the set of indices     *)
(* that have been assigned: reading an index outside that set gives        *)
(* Undefined, writing one adds it, and indexing Undefined throws a         *)
(* TypeError.  A Node Buffer is a sequence of bytes 0..255.                *)
(***************************************************************************)
EXTENDS Integers, Sequences, FiniteSets, TLC

VARIABLES
    world,             \* the World under test: width, height, foreground, background
    chunk,             \* the World returned by the last successful copy, or NoWorld
    fresh,             \* the World built by `new World(..)` and pasted into, or NoWorld
    copied,            \* history: the copy call that produced chunk and the world it read
    buffer,            \* the Buffer handed to the last init call
    doc,               \* the string returned by the last toString call, or NoDoc
    SpecialBlockData,  \* data/consts.js: block name -> list of HeaderTypes
    ret,               \* the last call: its name, arguments, thrown error, returned value
    ops                \* number of calls made so far

vars == <<world, chunk, fresh, copied, buffer, doc, SpecialBlockData, ret, ops>>

-----------------------------------------------------------------------------
(* Bounds of the model *)

\* worlds have at most MaxCells cells per layer (width * height <= MaxCells)
MaxCells == 4
\* number of calls made on a world in one behaviour
MaxOps == 2
\* the worlds the geometric operations run on are at most MaxSide x MaxSide
MaxSide == 3
\* the buffers handed to init hold at most MaxNonZero words other than 0
MaxNonZero == 2

-----------------------------------------------------------------------------
(* The registry: data/mappings.js and data/consts.js *)

Int32 == "Int32"
String == "String"

BlockMappings ==
    ("empty" :> 0) @@ ("coin_gate" :> 1) @@ ("sign" :> 2) @@ ("basic_gray" :> 3)

BlockMappingsReverse ==
    [i \in {BlockMappings[n] : n \in DOMAIN BlockMappings} |->
        CHOOSE n \in DOMAIN BlockMappings : BlockMappings[n] = i]

\* the table as the spec describes it today: only 32-bit integer fields
CurrentTable == ("coin_gate" :> <<Int32>>)
\* a table that also holds an entry for the sentinel block
EmptyEntryTable == CurrentTable @@ ("empty" :> <<Int32>>)
\* a table of a later registry version: a field type init has no case for
SkewedTable == CurrentTable @@ ("sign" :> <<String>>)

-----------------------------------------------------------------------------
(* Block *)

Undefined == [kind |-> "undefined"]

\* new Block(id) with a numeric id
Block(id) == [id |-> id, data |-> <<>>]

\* new Block(name): the id is looked up in BlockMappings
BlockNamed(n) == Block(BlockMappings[n])

\* get name(): BlockMappingsReverse[id]; an unmapped id gives undefined, which
\* as a property key reads "undefined"
name(b) ==
    IF b.id \in DOMAIN BlockMappingsReverse THEN BlockMappingsReverse[b.id]
    ELSE "undefined"

\* SpecialBlockData[name] is truthy
HasSchema(table, n) == n \in DOMAIN table

\* get data_count()
data_count(table, b) ==
    IF ~HasSchema(table, name(b)) THEN 0 ELSE Len(table[name(b)])

isSameAs(a, b) ==
    /\ a.id = b.id
    /\ Len(a.data) = Len(b.data)
    /\ \A i \in 1..Len(a.data) : a.data[i] = b.data[i]

-----------------------------------------------------------------------------
(* World: construction and cell access *)

NoWorld == [width |-> 0, height |-> 0, foreground |-> <<>>, background |-> <<>>]

get2dArray(width, height) ==
    [x \in 0..(width - 1) |-> [y \in 0..(height - 1) |-> Block(0)]]

\* constructor(width, height)
NewWorld(width, height) ==
    [width |-> width, height |-> height,
     foreground |-> get2dArray(width, height),
     background |-> get2dArray(width, height)]

\* l == 1 ? this.foreground : this.background
LayerOf(w, l) == IF l = 1 THEN w.foreground ELSE w.background

WithLayer(w, l, layer) ==
    IF l = 1 THEN [w EXCEPT !.foreground = layer]
    ELSE [w EXCEPT !.background = layer]

\* layer[x] exists
HasColumn(layer, x) == x \in DOMAIN layer

\* layer[x][y] for an existing column: a hole reads as undefined
Get(layer, x, y) ==
    IF y \in DOMAIN layer[x] THEN layer[x][y] ELSE Undefined

\* layer[x][y] = b for an existing column: the index is added when it is new
Store(layer, x, y, b) ==
    [layer EXCEPT ![x] =
        [k \in (DOMAIN layer[x]) \cup {y} |-> IF k = y THEN b ELSE layer[x][k]]]

\* the cells of a width x height grid in the order of the nested loops
\* `for x ... for y ...` : cell k is (k div height, k mod height)
LoopOrderRowMajor(width, height) ==
    [k \in 1..(width * height) |-> <<(k - 1) % width, (k - 1) \div width>>]

LoopOrder(width, height) ==
    [k \in 1..(width * height) |-> <<(k - 1) \div height, (k - 1) % height>>]

-----------------------------------------------------------------------------
(* clear *)

atBorderMissingFarEdge(w, border, x, y) ==
    border /\ (x = 0 \/ y = 0)

atBorder(w, border, x, y) ==
    border /\ (x = 0 \/ y = 0 \/ x = w.width - 1 \/ y = w.height - 1)

RECURSIVE clearFrom(_, _, _, _)
clearFrom(w, border, cells, k) ==
    IF k > Len(cells) THEN w
    ELSE LET x == cells[k][1]
             y == cells[k][2]
             fg == IF atBorder(w, border, x, y) THEN BlockNamed("basic_gray")
                   ELSE Block(0)
             w1 == [w EXCEPT !.foreground = Store(w.foreground, x, y, fg)]
             w2 == [w1 EXCEPT !.background = Store(w1.background, x, y, Block(0))]
         IN clearFrom(w2, border, cells, k + 1)

clear(w, border) == clearFrom(w, border, LoopOrder(w.width, w.height), 1)

-----------------------------------------------------------------------------
(* place and blockAt *)

placeIgnoringData(table, w, x, y, l, id, args) ==
    IF ~HasColumn(LayerOf(w, l), x)
    THEN [error |-> "TypeError", world |-> w, value |-> Undefined]
    ELSE [error |-> "none",
          world |-> WithLayer(w, l, Store(LayerOf(w, l), x, y, Block(id))),
          value |-> Block(id)]

\* place(x, y, l, id, args): the outcome, the world afterwards and the Block
\* of the returned pair
place(table, w, x, y, l, id, args) ==
    LET layer == LayerOf(w, l)
        block == IF HasSchema(table, name(Block(id)))
                 THEN [Block(id) EXCEPT !.data = args]
                 ELSE Block(id)
    IN IF ~HasColumn(layer, x)
       THEN [error |-> "TypeError", world |-> w, value |-> Undefined]
       ELSE [error |-> "none",
             world |-> WithLayer(w, l, Store(layer, x, y, block)),
             value |-> block]

\* blockAt(x, y, l)
blockAt(w, x, y, l) ==
    LET layer == LayerOf(w, l)
    IN IF ~HasColumn(layer, x) THEN [error |-> "TypeError", value |-> Undefined]
       ELSE [error |-> "none", value |-> Get(layer, x, y)]

-----------------------------------------------------------------------------
(* copy and paste *)

regionCellNoOffset(layer, xa, ya, i, j) == Get(layer, i, j)

\* this.background[x][y] with x = xa + i, y = ya + j, the cell assigned to
\* world.background[x - x1][y - y1]
regionCell(layer, xa, ya, i, j) == Get(layer, xa + i, ya + j)

\* copy(x1, y1, x2, y2): the corners are put in order, a new World is built and
\* every cell of the region is assigned into it; a missing source column throws
\* and the new World is lost
copy(w, x1, y1, x2, y2) ==
    LET xa == IF x2 < x1 THEN x2 ELSE x1
        xb == IF x2 < x1 THEN x1 ELSE x2
        ya == IF y2 < y1 THEN y2 ELSE y1
        yb == IF y2 < y1 THEN y1 ELSE y2
        new == NewWorld(xb - xa + 1, yb - ya + 1)
    IN IF \E x \in xa..xb : ~HasColumn(w.background, x)
       THEN [error |-> "TypeError", world |-> NoWorld]
       ELSE [error |-> "none",
             world |-> [new EXCEPT
                 !.foreground = [i \in 0..(xb - xa) |-> [j \in 0..(yb - ya) |->
                                    regionCell(w.foreground, xa, ya, i, j)]],
                 !.background = [i \in 0..(xb - xa) |-> [j \in 0..(yb - ya) |->
                                    regionCell(w.background, xa, ya, i, j)]]]]

RECURSIVE pasteFrom(_, _, _, _, _, _)
pasteFrom(w, xt, yt, data, cells, k) ==
    IF k > Len(cells) THEN [error |-> "none", world |-> w]
    ELSE LET x == cells[k][1]
             y == cells[k][2]
         IN IF ~HasColumn(w.foreground, x + xt)
            THEN [error |-> "TypeError", world |-> w]
            ELSE LET w1 == [w EXCEPT !.foreground =
                                Store(w.foreground, x + xt, y + yt,
                                      Get(data.foreground, x, y))]
                     w2 == [w1 EXCEPT !.background =
                                Store(w1.background, x + xt, y + yt,
                                      Get(data.background, x, y))]
                 IN pasteFrom(w2, xt, yt, data, cells, k + 1)

\* paste(xt, yt, data): cell by cell; a missing target column throws and the
\* cells already written stay written
paste(w, xt, yt, data) ==
    pasteFrom(w, xt, yt, data, LoopOrder(data.width, data.height), 1)

-----------------------------------------------------------------------------
(* Binary decoding: init, deserializeLayer, deserializeBlock *)

\* Buffer.readInt32LE throws a RangeError unless offset + 4 <= buffer.length
CanRead(buf, offset) == offset >= 0 /\ offset + 4 <= Len(buf)

\* Buffer.readInt32LE: four bytes, least significant first, two's complement
readInt32LE(buf, offset) ==
    LET b0 == buf[offset + 1]
        b1 == buf[offset + 2]
        b2 == buf[offset + 3]
        b3 == buf[offset + 4]
    IN b0 + 256 * b1 + 65536 * b2 + 16777216 * (IF b3 >= 128 THEN b3 - 256 ELSE b3)

\* the loop over arg_types: the switch has a case for HeaderTypes.Int32 only,
\* any other type falls through it with nothing read and the offset unchanged
RECURSIVE readArgs(_, _, _, _)
readArgs(buf, offset, types, data) ==
    IF types = <<>> THEN [error |-> "none", data |-> data, offset |-> offset]
    ELSE IF Head(types) = Int32
         THEN IF ~CanRead(buf, offset)
              THEN [error |-> "RangeError", data |-> data, offset |-> offset]
              ELSE readArgs(buf, offset + 4, Tail(types),
                            Append(data, readInt32LE(buf, offset)))
         ELSE readArgs(buf, offset, Tail(types), data)

\* deserializeBlock(buffer, offset): [Block, offset], or a RangeError
deserializeBlock(table, buf, offset) ==
    IF ~CanRead(buf, offset)
    THEN [error |-> "RangeError", block |-> Undefined, offset |-> offset]
    ELSE LET block == Block(readInt32LE(buf, offset))
             arg_types == IF HasSchema(table, name(block))
                          THEN table[name(block)] ELSE <<>>
             r == readArgs(buf, offset + 4, arg_types, <<>>)
         IN IF name(block) = "empty"
            THEN [error |-> "none", block |-> block, offset |-> offset + 4]
            ELSE [error |-> r.error,
                  block |-> [block EXCEPT !.data = r.data],
                  offset |-> r.offset]

\* deserializeLayer(layer, buffer, offset): the cells decoded before a throw
\* stay assigned
RECURSIVE deserializeFrom(_, _, _, _, _, _)
deserializeFrom(table, layer, buf, offset, cells, k) ==
    IF k > Len(cells) THEN [error |-> "none", layer |-> layer, offset |-> offset]
    ELSE LET r == deserializeBlock(table, buf, offset)
         IN IF r.error # "none"
            THEN [error |-> r.error, layer |-> layer, offset |-> offset]
            ELSE deserializeFrom(table,
                                 Store(layer, cells[k][1], cells[k][2], r.block),
                                 buf, r.offset, cells, k + 1)

deserializeLayer(table, w, layer, buf, offset) ==
    deserializeFrom(table, layer, buf, offset, LoopOrder(w.width, w.height), 1)

\* init(buffer): background, then foreground, then the length warning
init(table, w, buf) ==
    LET bg == deserializeLayer(table, w, w.background, buf, 0)
        w1 == [w EXCEPT !.background = bg.layer]
        fg == deserializeLayer(table, w1, w1.foreground, buf, bg.offset)
        w2 == [w1 EXCEPT !.foreground = fg.layer]
    IN IF bg.error # "none"
       THEN [error |-> bg.error, world |-> w1, offset |-> bg.offset, warned |-> FALSE]
       ELSE IF fg.error # "none"
       THEN [error |-> fg.error, world |-> w2, offset |-> fg.offset, warned |-> FALSE]
       ELSE [error |-> "none", world |-> w2, offset |-> fg.offset,
             warned |-> Len(buf) # fg.offset]

-----------------------------------------------------------------------------
(* Text encoding: toString and fromString.  A string is a sequence of       *)
(* one-character strings.                                                   *)

DigitChars ==
    <<"0", "1", "2", "3", "4", "5", "6", "7", "8", "9", "a", "b", "c", "d", "e",
      "f", "g", "h", "i", "j", "k", "l", "m", "n", "o", "p", "q", "r", "s", "t",
      "u", "v", "w", "x", "y", "z">>

UpperChars ==
    <<"0", "1", "2", "3", "4", "5", "6", "7", "8", "9", "A", "B", "C", "D", "E",
      "F", "G", "H", "I", "J", "K", "L", "M", "N", "O", "P", "Q", "R", "S", "T",
      "U", "V", "W", "X", "Y", "Z">>

\* Number.prototype.toString(radix)
RECURSIVE NaturalToString(_, _)
NaturalToString(n, radix) ==
    IF n < radix THEN <<DigitChars[n + 1]>>
    ELSE Append(NaturalToString(n \div radix, radix), DigitChars[(n % radix) + 1])

NumberToString(n, radix) ==
    IF n < 0 THEN <<"-">> \o NaturalToString(-n, radix) ELSE NaturalToString(n, radix)

\* String.prototype.toLocaleUpperCase on the characters toString(36) produces
toLocaleUpperCase(str) ==
    [i \in 1..Len(str) |->
        IF \E d \in 1..Len(DigitChars) : DigitChars[d] = str[i]
        THEN UpperChars[CHOOSE d \in 1..Len(DigitChars) : DigitChars[d] = str[i]]
        ELSE str[i]]

\* `str += block.data`: Array.prototype.toString joins the elements with ","
RECURSIVE ArrayToString(_)
ArrayToString(data) ==
    IF data = <<>> THEN <<>>
    ELSE IF Len(data) = 1 THEN NumberToString(data[1], 10)
    ELSE NumberToString(data[1], 10) \o <<",">> \o ArrayToString(Tail(data))

includes(palette, n) == \E i \in 1..Len(palette) : palette[i] = n

\* Array.prototype.indexOf, zero-based
indexOf(palette, n) == (CHOOSE i \in 1..Len(palette) : palette[i] = n) - 1

pushAlways(palette, n) == Append(palette, n)

\* if (!data.palette.includes(block.name)) data.palette.push(block.name)
pushIfNew(palette, n) == IF includes(palette, n) THEN palette ELSE Append(palette, n)

\* one pass of the loop body of toString: the text a cell adds to its layer
cellText(palette, block) ==
    toLocaleUpperCase(NumberToString(indexOf(palette, name(block)), 36))
        \o (IF Len(block.data) > 0 THEN ArrayToString(block.data) ELSE <<>>)
        \o <<" ">>

\* one of the two loops of toString over a layer; reading .name of a hole throws
RECURSIVE encodeFrom(_, _, _, _, _)
encodeFrom(layer, palette, text, cells, k) ==
    IF k > Len(cells) THEN [error |-> "none", palette |-> palette, text |-> text]
    ELSE LET block == Get(layer, cells[k][1], cells[k][2])
         IN IF block = Undefined
            THEN [error |-> "TypeError", palette |-> palette, text |-> text]
            ELSE LET p == pushIfNew(palette, name(block))
                 IN encodeFrom(layer, p, text \o cellText(p, block), cells, k + 1)

\* YAML.stringify and YAML.parse: the document format is opaque, a document
\* carries the structure it was given
YAMLstringify(data) == <<"yaml", data>>
YAMLparse(str) == str[2]

\* toString(writer, args): args (keys other than the reserved ones) are merged
\* into the document before the layers are encoded
toString(w, args) ==
    LET cells == LoopOrder(w.width, w.height)
        fg == encodeFrom(w.foreground, <<"empty">>, <<>>, cells, 1)
        bg == encodeFrom(w.background, fg.palette, <<>>, cells, 1)
        data == args @@ ("file-version" :> 0) @@
                [width |-> w.width, height |-> w.height, palette |-> bg.palette,
                 layers |-> [foreground |-> fg.text, background |-> bg.text]]
    IN IF fg.error # "none" THEN [error |-> fg.error, value |-> Undefined]
       ELSE IF bg.error # "none" THEN [error |-> bg.error, value |-> Undefined]
       ELSE [error |-> "none", value |-> YAMLstringify(data)]

\* fromString(data): the document is parsed and logged; nothing is returned
fromString(str) ==
    [error |-> "none", value |-> Undefined, logged |-> YAMLparse(str)]

-----------------------------------------------------------------------------
(* Inputs *)

\* the sizes of the worlds the codecs and copy / paste run on
Dims == {d \in (1..MaxCells) \X (1..MaxCells) : d[1] * d[2] <= MaxCells}

\* the sizes of the worlds clear / place / blockAt run on
Sides == (1..MaxSide) \X (1..MaxSide)

InRange(w, x, y) == x \in 0..(w.width - 1) /\ y \in 0..(w.height - 1)

\* the coordinates handed to the calls: every cell, and one position past the
\* last column and one past the last row
Coords(w) ==
    ((0..(w.width - 1)) \X (0..(w.height - 1))) \cup {<<w.width, 0>>, <<0, w.height>>}

\* the (id, args) pairs handed to place: a block without fields, the sentinel
\* and a block with one Int32 field
PlaceInputs == {<<3, <<>>>>, <<0, <<>>>>, <<1, <<5>>>>}

\* worlds as place and init can populate them
WorldsOver(dims, fgBlocks, bgBlocks) ==
    UNION {
        {[width |-> d[1], height |-> d[2], foreground |-> f, background |-> b] :
            f \in [0..(d[1] - 1) -> [0..(d[2] - 1) -> fgBlocks]],
            b \in [0..(d[1] - 1) -> [0..(d[2] - 1) -> bgBlocks]]} : d \in dims}

RegionWorlds ==
    WorldsOver(Dims, {Block(0), [id |-> 1, data |-> <<5>>]}, {Block(0), Block(3)})

TextWorlds ==
    WorldsOver(Dims, {Block(0), Block(3), [id |-> 1, data |-> <<-12>>]},
                     {Block(0), Block(3)})

\* caller metadata for toString, none of it under a reserved key
TextArgs == {<<>>, [author |-> "anonymous"]}

\* Buffer.writeInt32LE, used to build the buffers handed to init
writeInt32LE(v) ==
    <<v % 256, (v \div 256) % 256, (v \div 65536) % 256, (v \div 16777216) % 256>>

RECURSIVE BytesOf(_)
BytesOf(ws) == IF ws = <<>> THEN <<>> ELSE writeInt32LE(Head(ws)) \o BytesOf(Tail(ws))

Words == {0, 1, 2, -1}

\* buffers of one word less to one word more than a world of empty cells
\* takes, at most MaxNonZero of the words other than 0, each buffer with or
\* without one trailing byte
Buffers(w) ==
    LET n == 2 * w.width * w.height
        at(k) == UNION {[idx -> Words \ {0}] :
                     idx \in {s \in SUBSET (1..k) : Cardinality(s) <= MaxNonZero}}
        fill(k, f) == [i \in 1..k |-> IF i \in DOMAIN f THEN f[i] ELSE 0]
    IN UNION {{BytesOf(fill(k, f)) \o pad : f \in at(k), pad \in {<<>>, <<0>>}} :
                 k \in (n - 1)..(n + 1)}

-----------------------------------------------------------------------------
(* The calls *)

NoCopy == [x1 |-> 0, y1 |-> 0, x2 |-> 0, y2 |-> 0, src |-> NoWorld]
NoDoc == <<>>

Clear(border) ==
    /\ ops < MaxOps
    /\ world' = clear(world, border)
    /\ ret' = [op |-> "clear", border |-> border, error |-> "none"]
    /\ ops' = ops + 1
    /\ UNCHANGED <<chunk, fresh, copied, buffer, doc, SpecialBlockData>>

Place(x, y, l, id, args) ==
    /\ ops < MaxOps
    /\ LET r == place(SpecialBlockData, world, x, y, l, id, args)
       IN /\ world' = r.world
          /\ ret' = [op |-> "place", x |-> x, y |-> y, l |-> l, id |-> id,
                     args |-> args, error |-> r.error, value |-> r.value]
    /\ ops' = ops + 1
    /\ UNCHANGED <<chunk, fresh, copied, buffer, doc, SpecialBlockData>>

BlockAt(x, y, l) ==
    /\ ops < MaxOps
    /\ LET r == blockAt(world, x, y, l)
       IN ret' = [op |-> "blockAt", x |-> x, y |-> y, l |-> l,
                  error |-> r.error, value |-> r.value]
    /\ ops' = ops + 1
    /\ UNCHANGED <<world, chunk, fresh, copied, buffer, doc, SpecialBlockData>>

\* copy, the first call on the world
Copy(x1, y1, x2, y2) ==
    /\ ret.op = "new"
    /\ LET r == copy(world, x1, y1, x2, y2)
       IN /\ chunk' = r.world
          /\ copied' = IF r.error = "none"
                       THEN [x1 |-> x1, y1 |-> y1, x2 |-> x2, y2 |-> y2, src |-> world]
                       ELSE copied
          /\ ret' = [op |-> "copy", x1 |-> x1, y1 |-> y1, x2 |-> x2, y2 |-> y2,
                     error |-> r.error]
    /\ ops' = ops + 1
    /\ UNCHANGED <<world, fresh, buffer, doc, SpecialBlockData>>

\* world.paste(xt, yt, chunk), right after the copy
Paste(xt, yt) ==
    /\ ret.op = "copy" /\ ret.error = "none"
    /\ LET r == paste(world, xt, yt, chunk)
       IN /\ world' = r.world
          /\ ret' = [op |-> "paste", xt |-> xt, yt |-> yt, error |-> r.error]
    /\ ops' = ops + 1
    /\ UNCHANGED <<chunk, fresh, copied, buffer, doc, SpecialBlockData>>

\* new World(chunk.width, chunk.height).paste(xt, yt, chunk), right after the copy
PasteFresh(xt, yt) ==
    /\ ret.op = "copy" /\ ret.error = "none"
    /\ LET r == paste(NewWorld(chunk.width, chunk.height), xt, yt, chunk)
       IN /\ fresh' = r.world
          /\ ret' = [op |-> "pasteFresh", xt |-> xt, yt |-> yt, error |-> r.error]
    /\ ops' = ops + 1
    /\ UNCHANGED <<world, chunk, copied, buffer, doc, SpecialBlockData>>

\* world.init(buf) on a newly constructed world
Decode(buf) ==
    /\ ret.op = "new"
    /\ LET r == init(SpecialBlockData, world, buf)
       IN /\ world' = r.world
          /\ ret' = [op |-> "init", error |-> r.error, offset |-> r.offset,
                     warned |-> r.warned]
    /\ buffer' = buf
    /\ ops' = ops + 1
    /\ UNCHANGED <<chunk, fresh, copied, doc, SpecialBlockData>>

ToStringCall(args) ==
    /\ ret.op = "new"
    /\ LET r == toString(world, args)
       IN /\ doc' = IF r.error = "none" THEN r.value ELSE doc
          /\ ret' = [op |-> "toString", error |-> r.error]
    /\ ops' = ops + 1
    /\ UNCHANGED <<world, chunk, fresh, copied, buffer, SpecialBlockData>>

\* World.fromString(doc) on the document toString returned
FromStringCall ==
    /\ ret.op = "toString" /\ ret.error = "none"
    /\ LET r == fromString(doc)
       IN ret' = [op |-> "fromString", error |-> r.error, value |-> r.value]
    /\ ops' = ops + 1
    /\ UNCHANGED <<world, chunk, fresh, copied, buffer, doc, SpecialBlockData>>

-----------------------------------------------------------------------------
(* Specifications *)

Start(w, table) ==
    /\ world = w
    /\ chunk = NoWorld
    /\ fresh = NoWorld
    /\ copied = NoCopy
    /\ buffer = <<>>
    /\ doc = NoDoc
    /\ SpecialBlockData = table
    /\ ret = [op |-> "new", error |-> "none"]
    /\ ops = 0

\* clear, place and blockAt on a newly constructed world
Init == \E d \in Sides : Start(NewWorld(d[1], d[2]), CurrentTable)

Next ==
    \/ \E border \in BOOLEAN : Clear(border)
    \/ \E c \in Coords(world), l \in {0, 1}, p \in PlaceInputs :
          Place(c[1], c[2], l, p[1], p[2])
    \/ \E c \in Coords(world), l \in {0, 1} : BlockAt(c[1], c[2], l)

Spec == Init /\ [][Next]_vars

\* copy and paste on a populated world
InitRegion == \E w \in RegionWorlds : Start(w, CurrentTable)

NextRegion ==
    \/ \E a \in Coords(world), b \in Coords(world) : Copy(a[1], a[2], b[1], b[2])
    \/ \E t \in {<<0, 0>>, <<1, 0>>, <<0, 1>>} : Paste(t[1], t[2])
    \/ \E t \in {<<0, 0>>, <<1, 0>>} : PasteFresh(t[1], t[2])

SpecRegion == InitRegion /\ [][NextRegion]_vars

\* init on a newly constructed world, under the tables of today's registry
InitBinary ==
    \E d \in Dims, table \in {CurrentTable, EmptyEntryTable} :
        Start(NewWorld(d[1], d[2]), table)

NextBinary == ret.op = "new" /\ \E buf \in Buffers(world) : Decode(buf)

SpecBinary == InitBinary /\ [][NextBinary]_vars

\* init under a table that declares a field type the decoder has no case for
InitSkew == \E d \in Dims : Start(NewWorld(d[1], d[2]), SkewedTable)

SpecSkew == InitSkew /\ [][NextBinary]_vars

\* toString and fromString on a populated world
InitText == \E w \in TextWorlds : Start(w, CurrentTable)

NextText ==
    \/ \E args \in TextArgs : ToStringCall(args)
    \/ FromStringCall

SpecText == InitText /\ [][NextText]_vars

-----------------------------------------------------------------------------
(* Properties of the geometric operations, checked under Spec and SpecRegion *)

\* C1: place(x, y, layer, id, data) with in-range coordinates and data as long
\* as the registry's field count for id, followed by blockAt(x, y, layer),
\* returns a Block with that id and, element by element, that data.
C1_PlaceThenBlockAt ==
    [][(/\ ret.op = "place"
        /\ InRange(world, ret.x, ret.y)
        /\ Len(ret.args) = data_count(SpecialBlockData, Block(ret.id))
        /\ ret'.op = "blockAt"
        /\ ret'.x = ret.x /\ ret'.y = ret.y /\ ret'.l = ret.l)
       => (/\ ret'.error = "none"
           /\ ret'.value # Undefined
           /\ ret'.value.id = ret.id
           /\ Len(ret'.value.data) = Len(ret.args)
           /\ \A i \in 1..Len(ret.args) : ret'.value.data[i] = ret.args[i])]_vars

\* a blockAt inside the world has returned the block with data that only a
\* place can have put there
C1_Witness ==
    /\ ret.op = "blockAt"
    /\ InRange(world, ret.x, ret.y)
    /\ ret.value = [id |-> 1, data |-> <<5>>]

\* C6: after clear(border) every background cell is empty and a foreground
\* cell is the border block exactly when border is set and the cell lies on the
\* outer edge; every other foreground cell is empty.
C6_Clear ==
    ret.op = "clear" =>
        \A x \in 0..(world.width - 1), y \in 0..(world.height - 1) :
            LET edge == x = 0 \/ x = world.width - 1 \/ y = 0 \/ y = world.height - 1
            IN /\ Get(world.background, x, y) = Block(0)
               /\ BlockNamed("basic_gray") # Block(0)
               /\ Get(world.foreground, x, y) =
                     IF ret.border /\ edge THEN BlockNamed("basic_gray") ELSE Block(0)

\* clear(true) has run as the second call on a 3 x 3 world
C6_Witness ==
    /\ ret.op = "clear" /\ ret.border /\ ops = 2
    /\ world.width = 3 /\ world.height = 3
    /\ Get(world.foreground, 1, 1) = Block(0)
    /\ Get(world.foreground, 2, 2) = BlockNamed("basic_gray")

\* C7: place and blockAt with x or y outside the world, and paste with a
\* target cell outside the destination, fail with OutOfRange and neither
\* return a value nor write a cell.
C7_OutOfRangeFails ==
    [][(\/ /\ ret'.op \in {"place", "blockAt"}
           /\ ~InRange(world, ret'.x, ret'.y)
        \/ /\ ret'.op = "paste"
           /\ \E x \in 0..(chunk.width - 1), y \in 0..(chunk.height - 1) :
                 ~InRange(world, x + ret'.xt, y + ret'.yt))
       => (ret'.error = "OutOfRange" /\ world' = world)]_vars

\* the grids of w are exactly width x height and every cell holds a Block
WellFormed(w) ==
    \A layer \in {w.foreground, w.background} :
        /\ DOMAIN layer = 0..(w.width - 1)
        /\ \A x \in DOMAIN layer :
              /\ DOMAIN layer[x] = 0..(w.height - 1)
              /\ \A y \in DOMAIN layer[x] : layer[x][y] # Undefined

\* C10: in every reachable state both grids of every world, the worlds copy
\* returns included, are exactly width x height with a Block in every cell.
C10_GridsWellFormed ==
    /\ WellFormed(world)
    /\ chunk # NoWorld => WellFormed(chunk)

\* C2: copy with in-range corners in any order, then paste(0, 0, copied) into
\* a new world of the copied size, gives a world whose cell (i, j) is the
\* source cell (min(x1, x2) + i, min(y1, y2) + j) on both layers.
C2_CopyThenPaste ==
    (/\ ret.op = "pasteFresh" /\ ret.xt = 0 /\ ret.yt = 0
     /\ InRange(copied.src, copied.x1, copied.y1)
     /\ InRange(copied.src, copied.x2, copied.y2))
    => LET src == copied.src
           xmin == IF copied.x1 < copied.x2 THEN copied.x1 ELSE copied.x2
           ymin == IF copied.y1 < copied.y2 THEN copied.y1 ELSE copied.y2
           dx == IF copied.x1 < copied.x2 THEN copied.x2 - copied.x1
                 ELSE copied.x1 - copied.x2
           dy == IF copied.y1 < copied.y2 THEN copied.y2 - copied.y1
                 ELSE copied.y1 - copied.y2
       IN /\ ret.error = "none"
          /\ fresh.width = dx + 1 /\ fresh.height = dy + 1
          /\ WellFormed(fresh)
          /\ \A i \in 0..dx, j \in 0..dy :
                /\ fresh.foreground[i][j].id = src.foreground[xmin + i][ymin + j].id
                /\ fresh.foreground[i][j].data = src.foreground[xmin + i][ymin + j].data
                /\ fresh.background[i][j].id = src.background[xmin + i][ymin + j].id
                /\ fresh.background[i][j].data = src.background[xmin + i][ymin + j].data

\* a region given by its far corner first, away from the origin, holding
\* different blocks, has been copied and pasted into a new world
C2_Witness ==
    /\ ret.op = "pasteFresh" /\ ret.xt = 0 /\ ret.yt = 0 /\ ret.error = "none"
    /\ copied.x2 < copied.x1 /\ copied.x2 > 0
    /\ InRange(copied.src, copied.x1, copied.y1)
    /\ InRange(copied.src, copied.x2, copied.y2)
    /\ fresh.foreground[0][0] # fresh.foreground[1][0]
    /\ fresh.background[0][0] # fresh.background[1][0]

-----------------------------------------------------------------------------
(* Properties of the binary decoder, checked under SpecBinary and SpecSkew *)

\* the cell the k-th record (from 0) of a decode belongs to: the background
\* cells come first, each layer column by column
RecordCell(k) ==
    LET n == world.width * world.height
        layer == IF k < n THEN world.background ELSE world.foreground
        j == IF k < n THEN k ELSE k - n
    IN layer[j \div world.height][j % world.height]

\* the number of fields of a record with this id: none for id 0, otherwise
\* what the table declares for the block type
RecordFields(id) ==
    IF id = 0 \/ id \notin DOMAIN BlockMappingsReverse THEN 0
    ELSE IF BlockMappingsReverse[id] \in DOMAIN SpecialBlockData
         THEN Len(SpecialBlockData[BlockMappingsReverse[id]]) ELSE 0

\* where the k-th record starts when each record is 4 bytes of id and 4 bytes
\* per field
RECURSIVE RecordStart(_)
RecordStart(k) ==
    IF k = 0 THEN 0
    ELSE RecordStart(k - 1) + 4 + 4 * RecordFields(RecordCell(k - 1).id)

\* the four bytes of buffer at offset are the little-endian form of v
HoldsInt32(offset, v) ==
    /\ offset + 4 <= Len(buffer)
    /\ SubSeq(buffer, offset + 1, offset + 4) = writeInt32LE(v)

\* C3: a decode that completes has read the buffer as a flat sequence of
\* records, background cells first and each layer column by column: record k
\* is in cell (k div height, k mod height), it is a 4-byte id and one 4-byte
\* value per declared field, and a record with id 0 takes 4 bytes whatever
\* the table holds.
C3_RecordLayout ==
    (ret.op = "init" /\ ret.error = "none") =>
        LET n == 2 * world.width * world.height
        IN /\ ret.offset = RecordStart(n)
           /\ \A k \in 0..(n - 1) :
                 LET cell == RecordCell(k)
                 IN /\ HoldsInt32(RecordStart(k), cell.id)
                    /\ Len(cell.data) = RecordFields(cell.id)
                    /\ \A i \in 1..Len(cell.data) :
                          HoldsInt32(RecordStart(k) + 4 * i, cell.data[i])
                    /\ cell.id = 0 => RecordStart(k + 1) = RecordStart(k) + 4

\* a 2 x 2 world has been decoded under the table with an entry for "empty":
\* the second record, a block with a negative field, is in cell (0, 1) of the
\* background and empty cells follow it
C3_Witness ==
    /\ ret.op = "init" /\ ret.error = "none" /\ ~ret.warned
    /\ SpecialBlockData = EmptyEntryTable
    /\ world.width = 2 /\ world.height = 2
    /\ world.background[0][1] = [id |-> 1, data |-> <<-1>>]
    /\ world.background[1][0] = Block(0)
    /\ ret.offset = 36

\* a cell of the decoded world whose block type declares a field of a type
\* other than Int32
MetUnsupportedField ==
    \E layer \in {world.foreground, world.background} :
        \E x \in DOMAIN layer : \E y \in DOMAIN layer[x] :
            /\ HasSchema(SpecialBlockData, name(layer[x][y]))
            /\ \E i \in 1..Len(SpecialBlockData[name(layer[x][y])]) :
                  SpecialBlockData[name(layer[x][y])][i] # Int32

\* C8: a decode that meets a cell whose block type declares a field of a type
\* the decoder does not recognise aborts with UnsupportedFieldType.
C8_UnsupportedFieldAborts ==
    (ret.op = "init" /\ MetUnsupportedField) => ret.error = "UnsupportedFieldType"

\* C9: a decode never fails on the buffer's length, too long or too short: it
\* returns, and it warns exactly when the bytes consumed differ from the
\* buffer's length.
C9_LengthMismatchWarns ==
    ret.op = "init" =>
        /\ ret.error = "none"
        /\ ret.warned <=> (Len(buffer) # ret.offset)

-----------------------------------------------------------------------------
(* Properties of the text codec, checked under SpecText *)

\* the cells in the order the encoder visits them: the foreground column by
\* column, then the background
Visited ==
    LET n == world.width * world.height
    IN [k \in 1..(2 * n) |->
           LET j == IF k <= n THEN k - 1 ELSE k - 1 - n
               layer == IF k <= n THEN world.foreground ELSE world.background
           IN layer[j \div world.height][j % world.height]]

FirstVisit(n) ==
    CHOOSE k \in 1..Len(Visited) :
        /\ name(Visited[k]) = n
        /\ \A m \in 1..(k - 1) : name(Visited[m]) # n

\* the tokens of a layer string: the text before each space
RECURSIVE TokensFrom(_, _, _)
TokensFrom(text, i, token) ==
    IF i > Len(text) THEN (IF token = <<>> THEN <<>> ELSE <<token \o <<"unterminated">>>>)
    ELSE IF text[i] = " " THEN <<token>> \o TokensFrom(text, i + 1, <<>>)
    ELSE TokensFrom(text, i + 1, Append(token, text[i]))

Tokens(text) == TokensFrom(text, 1, <<>>)

StartsWith(token, prefix) ==
    /\ Len(prefix) <= Len(token)
    /\ SubSeq(token, 1, Len(prefix)) = prefix

\* the position of n in the palette, from 0, written in base 36 with capitals
PaletteIndexText(palette, n) ==
    LET i == (CHOOSE k \in 1..Len(palette) : palette[k] = n) - 1
    IN IF i < 36 THEN <<UpperChars[i + 1]>>
       ELSE <<UpperChars[(i \div 36) + 1], UpperChars[(i % 36) + 1]>>

\* C4: in the document toString returns the palette starts with "empty", holds
\* no name twice, lists the other names in the order of their first visited
\* cell, and each layer string is width * height space-terminated tokens,
\* column by column, each starting with its cell's palette index in base 36.
C4_PaletteAndTokens ==
    (ret.op = "toString" /\ ret.error = "none") =>
        LET data == YAMLparse(doc)
            palette == data.palette
            n == world.width * world.height
            fg == Tokens(data.layers.foreground)
            bg == Tokens(data.layers.background)
        IN /\ palette[1] = "empty"
           /\ \A i, j \in 1..Len(palette) : palette[i] = palette[j] => i = j
           /\ \A i \in 2..Len(palette) : \E k \in 1..Len(Visited) :
                 name(Visited[k]) = palette[i]
           /\ \A k \in 1..Len(Visited) : \E i \in 1..Len(palette) :
                 palette[i] = name(Visited[k])
           /\ \A i, j \in 2..Len(palette) :
                 i < j => FirstVisit(palette[i]) < FirstVisit(palette[j])
           /\ Len(fg) = n /\ Len(bg) = n
           /\ \A k \in 1..n :
                 /\ StartsWith(fg[k], PaletteIndexText(palette, name(Visited[k])))
                 /\ StartsWith(bg[k], PaletteIndexText(palette, name(Visited[n + k])))

\* a 2 x 2 world has been encoded whose palette lists a name first met in the
\* foreground's second column before one first met in the background
C4_Witness ==
    /\ ret.op = "toString" /\ ret.error = "none"
    /\ world.width = 2 /\ world.height = 2
    /\ YAMLparse(doc).palette = <<"empty", "coin_gate", "basic_gray">>
    /\ world.foreground[0][0] = Block(0) /\ world.foreground[0][1] = Block(0)
    /\ world.foreground[1][0] = Block(0)
    /\ world.background[0][1] = Block(3)
    /\ YAMLparse(doc).layers.foreground =
          <<"0", " ", "0", " ", "0", " ", "1", "-", "1", "2", " ">>

\* every cell of w holds a block type without fields
ZeroFieldWorld(w) ==
    \A layer \in {w.foreground, w.background} :
        \A x \in DOMAIN layer : \A y \in DOMAIN layer[x] :
            data_count(SpecialBlockData, layer[x][y]) = 0

\* C5: for a world of block types without fields, decoding its text encoding
\* returns a world of the same size whose cells are isSameAs the original's.
C5_TextRoundTrip ==
    (ret.op = "fromString" /\ ZeroFieldWorld(world)) =>
        /\ ret.value # Undefined
        /\ ret.value.width = world.width /\ ret.value.height = world.height
        /\ \A x \in 0..(world.width - 1), y \in 0..(world.height - 1) :
              /\ isSameAs(ret.value.foreground[x][y], world.foreground[x][y])
              /\ isSameAs(ret.value.background[x][y], world.background[x][y])

====
